---- MODULE Spec2Model ----
(***************************************************************************)
(* Order service: HTTP handlers over an in-memory order registry guarded   *)
(* by one mutex, a per-request RabbitMQ topology setup and publish, and a  *)
(* background consumer.  The broker is modelled by its AMQP 0-9-1          *)
(* behaviour as seen through streadway/amqp: a passive declare             *)
(* (QueueInspect) of a missing queue raises 404 and closes the channel, a  *)
(* redeclare with different arguments raises 406 and closes the channel,   *)
(* and any call on a closed channel fails.                                 *)
(***************************************************************************)
EXTENDS Integers, Sequences, FiniteSets, TLC

\* ---------------------------------------------------------------- bounds
NumReq == 2         \* request units in flight at the same time
MaxMsgs == 1        \* messages published over a run

Req == 1..NumReq

\* ---------------------------------------------------------------- inputs
Ids == {"5", "7"}

Order(id, item, price, mt) ==
    [id |-> id, item |-> item, price |-> price, message_type |-> mt]

NoOrder == Order("", "", 0, <<>>)

\* request bodies of POST /orders: one body per id
OrderInputs ==
    {Order("5", "camel", 1200, <<"o", "k">>),
     Order("7", "camel v2", 1500, <<"a", ".", "b">>)}
\* request bodies of POST /orders: two bodies per id
CreateInputs ==
    {Order(i, "camel", 1200, <<"o", "k">>) : i \in Ids}
        \cup {Order(i, "camel v2", 1500, <<"a", ".", "b">>) : i \in Ids}
\* path id and body of PUT /orders/:id (id and message_type of the body are ignored)
UpdateInputs == {Order(i, "goat", 900, <<>>) : i \in Ids}
\* path id of GET/DELETE /orders/:id
IdInputs == {Order(i, "", 0, <<>>) : i \in Ids}

VARIABLES
    alive,      \* the process is running (log.Fatalf ends it)
    kind,       \* kind[r]: which handler request unit r runs
    order,      \* order[r]: the bound request data of unit r
    pc,         \* pc[r]: position of unit r in its handler
    result,     \* result[r]: the response status of unit r
    err,        \* err[r]: underlying cause of a broker error returned to unit r
    conn,       \* conn[r]: the amqp connection unit r dialled
    chan,       \* chan[r]: the amqp channel unit r opened
    mu,         \* holder of the registry mutex, 0 when free
    orders,     \* the registry: id -> order
    lastOp,     \* for each id, the last mutating registry operation on it
    dlqQ,       \* broker: queue orders_dlq exists
    ordersQ,    \* broker: queue orders: "absent", "plain" (no arguments), "dlx"
    exchange,   \* broker: exchange order_topic exists
    binding,    \* broker: orders is bound to order_topic with order.*
    published,  \* broker: messages accepted by order_topic, in order
    queue,      \* broker: messages waiting in queue orders
    cpc,        \* position of the consumer
    cconn,      \* the consumer's connection
    cchan,      \* the consumer's channel
    msgs,       \* the consumer's delivery stream (delivered, auto-acked)
    cur,        \* the delivery the draining loop is processing
    processed,  \* bodies handed to processOrder, in order
    cerr        \* the consumer's error handed to log.Fatalf

regVars == <<mu, orders, lastOp>>
topoVars == <<dlqQ, ordersQ, exchange, binding>>
brokerVars == <<dlqQ, ordersQ, exchange, binding, published, queue>>
consVars == <<cpc, cconn, cchan, msgs, cur, processed, cerr>>
reqVars == <<kind, order, pc, result, err, conn, chan>>
vars == <<alive, kind, order, pc, result, err, conn, chan, mu, orders, lastOp,
          dlqQ, ordersQ, exchange, binding, published, queue,
          cpc, cconn, cchan, msgs, cur, processed, cerr>>

\* ---------------------------------------------------------------- strings
Dot == "."

\* "order." as characters
OrderPrefix == <<"o", "r", "d", "e", "r", ".">>

\* the words of a routing key: the substrings between the dots
RECURSIVE Words(_)
Words(s) ==
    IF \A i \in 1..Len(s) : s[i] # Dot
    THEN <<s>>
    ELSE LET k == CHOOSE i \in 1..Len(s) : s[i] = Dot /\ \A j \in 1..(i - 1) : s[j] # Dot
         IN  <<SubSeq(s, 1, k - 1)>> \o Words(SubSeq(s, k + 1, Len(s)))

\* topic match of a routing key against the binding pattern order.*
\* ("*" stands for exactly one word)
MatchesBinding(key) ==
    LET w == Words(key)
    IN  Len(w) = 2 /\ w[1] = <<"o", "r", "d", "e", "r">>

\* ---------------------------------------------------------------- registry
\* a store that rebuilds the map around the new entry
RegistryPut_LosesOthers(m, o) ==
    [i \in {o.id} |-> o]

\* a store that stores everything but the price
RegistryPut_DropsPrice(m, o) ==
    [i \in (DOMAIN m) \cup {o.id} |-> IF i = o.id THEN [o EXCEPT !.price = 0] ELSE m[i]]

\* a store that inserts only when the id is new
RegistryPut_KeepsExisting(m, o) ==
    [i \in (DOMAIN m) \cup {o.id} |-> IF i \in DOMAIN m THEN m[i] ELSE o]

\* orders[order.ID] = order
RegistryPut(m, o) ==
    [i \in (DOMAIN m) \cup {o.id} |-> IF i = o.id THEN o ELSE m[i]]

\* an update that replaces the entry by the bound body
RegistryUpdate_Replaces(m, id, item, price) ==
    [m EXCEPT ![id] = Order(id, item, price, <<>>)]

\* order.Item = newOrder.Item; order.Price = newOrder.Price
RegistryUpdate(m, id, item, price) ==
    [m EXCEPT ![id] = [@ EXCEPT !.item = item, !.price = price]]

\* a delete that removes nothing
RegistryRemove_Keeps(m, id) == m

\* delete(orders, id)
RegistryRemove(m, id) ==
    [i \in (DOMAIN m) \ {id} |-> m[i]]

\* order, ok := orders[id]
Lookup(m, id) ==
    IF id \in DOMAIN m THEN [ok |-> TRUE, order |-> m[id]]
    ELSE [ok |-> FALSE, order |-> NoOrder]

EmptyRegistry == [i \in {} |-> NoOrder]

NoOp == [op |-> "none", rec |-> NoOrder]

\* ---------------------------------------------------------------- publisher
\* a routing key without the separating dot
RoutingKey_NoDot(messageType) == <<"o", "r", "d", "e", "r">> \o messageType

\* routingKey := "order." + messageType
RoutingKey(messageType) == OrderPrefix \o messageType

\* a publishing that leaves the body out
Publishing_NoBody(message, messageType) ==
    [exchange |-> "order_topic", key |-> RoutingKey(messageType),
     content_type |-> "text/plain", body |-> ""]

\* the amqp.Publishing handed to ch.Publish with its exchange and routing key
Publishing(message, messageType) ==
    [exchange |-> "order_topic", key |-> RoutingKey(messageType),
     content_type |-> "text/plain", body |-> message]

\* a send that reaches the broker before its error is noticed
Sent_BeforeError(io, ch) == ch = "open"

\* ch.Publish returned nil: the message left on an open channel
Sent(io, ch) == io /\ ch = "open"

\* what the exchange does with a message: into orders when the binding matches
Route(q, bound, m) ==
    IF bound /\ MatchesBinding(m.key) THEN Append(q, m) ELSE q

\* ---------------------------------------------------------------- initial state
InitCommon ==
    /\ alive = TRUE
    /\ kind = [r \in Req |-> "idle"]
    /\ order = [r \in Req |-> NoOrder]
    /\ pc = [r \in Req |-> "idle"]
    /\ result = [r \in Req |-> [status |-> "none", body |-> EmptyRegistry]]
    /\ err = [r \in Req |-> "none"]
    /\ conn = [r \in Req |-> "none"]
    /\ chan = [r \in Req |-> "none"]
    /\ mu = 0
    /\ orders = EmptyRegistry
    /\ lastOp = [i \in Ids |-> NoOp]
    /\ published = <<>>
    /\ cpc = "dial"
    /\ cconn = "none"
    /\ cchan = "none"
    /\ msgs = <<>>
    /\ cur = NoOrder.id
    /\ processed = <<>>
    /\ cerr = "none"

\* a broker on which nothing has been declared yet
FreshBroker ==
    /\ dlqQ = FALSE
    /\ ordersQ = "absent"
    /\ exchange = FALSE
    /\ binding = FALSE
    /\ queue = <<>>

\* a broker already carrying the documented topology (the queues and the
\* exchange are durable and outlive the process)
ProvisionedBroker ==
    /\ dlqQ = TRUE
    /\ ordersQ = "dlx"
    /\ exchange = TRUE
    /\ binding = TRUE
    /\ queue = <<>>

\* a broker carrying the topology as an earlier run of the process left it
\* when its consumer declared orders first, with one message of that run
\* still waiting in the durable queue
BacklogBroker ==
    /\ dlqQ = TRUE
    /\ ordersQ = "plain"
    /\ exchange = TRUE
    /\ binding = TRUE
    /\ queue = <<Publishing("7", <<"o", "k">>)>>

Init == InitCommon /\ (FreshBroker \/ ProvisionedBroker)

\* ---------------------------------------------------------------- requests
InFlight(r) == pc[r] \notin {"idle", "done"}

\* the response c.JSON / c.NoContent writes
Response(status, body) == [status |-> status, body |-> body]

One(o) == [i \in {o.id} |-> o]

\* what is left of a request's data once its handler has returned: the id it
\* was about
Returned(o) == Order(o.id, "", 0, <<>>)

\* a request reaches its handler on a request unit of its own
Arrive(r, k, o) ==
    /\ alive
    /\ ~InFlight(r)
    /\ \A q \in 1..(r - 1) : InFlight(q)     \* units are interchangeable: take the first free one
    /\ k = "create" => Len(published) < MaxMsgs
    /\ kind' = [kind EXCEPT ![r] = k]
    /\ order' = [order EXCEPT ![r] = o]
    /\ pc' = [pc EXCEPT ![r] = "start"]
    /\ result' = [result EXCEPT ![r] = Response("none", EmptyRegistry)]
    /\ err' = [err EXCEPT ![r] = "none"]
    /\ conn' = [conn EXCEPT ![r] = "none"]
    /\ chan' = [chan EXCEPT ![r] = "none"]
    /\ UNCHANGED <<alive, regVars, brokerVars, consVars>>

\* c.Bind fails in OrderHandler: 400 before anything is stored
CreateBindFail(r) ==
    /\ alive
    /\ kind[r] = "create" /\ pc[r] = "start"
    /\ pc' = [pc EXCEPT ![r] = "done"]
    /\ order' = [order EXCEPT ![r] = Returned(order[r])]
    /\ result' = [result EXCEPT ![r] = Response("badRequest", EmptyRegistry)]
    /\ UNCHANGED <<alive, kind, err, conn, chan, regVars, brokerVars, consVars>>

\* a lock that admits any number of holders, as a read lock does
Lock_Shared(r) ==
    /\ alive
    /\ pc[r] = "start"
    /\ mu' = r
    /\ pc' = [pc EXCEPT ![r] = "locked"]
    /\ UNCHANGED <<alive, kind, order, result, err, conn, chan, orders, lastOp,
                   brokerVars, consVars>>

\* mu.Lock()
Lock(r) ==
    /\ alive
    /\ pc[r] = "start"
    /\ mu = 0
    /\ mu' = r
    /\ pc' = [pc EXCEPT ![r] = "locked"]
    /\ UNCHANGED <<alive, kind, order, result, err, conn, chan, orders, lastOp,
                   brokerVars, consVars>>

\* a store that keeps the mutex until the request returns
CreateStore_HoldsLock(r) ==
    /\ alive
    /\ kind[r] = "create" /\ pc[r] = "locked"
    /\ orders' = RegistryPut(orders, order[r])
    /\ lastOp' = [lastOp EXCEPT ![order[r].id] = [op |-> "create", rec |-> order[r]]]
    /\ pc' = [pc EXCEPT ![r] = "dial"]
    /\ UNCHANGED <<alive, kind, order, result, err, conn, chan, mu, brokerVars, consVars>>

\* orders[order.ID] = order; mu.Unlock()
CreateStore(r) ==
    /\ alive
    /\ kind[r] = "create" /\ pc[r] = "locked"
    /\ orders' = RegistryPut(orders, order[r])
    /\ lastOp' = [lastOp EXCEPT ![order[r].id] = [op |-> "create", rec |-> order[r]]]
    /\ mu' = 0
    /\ pc' = [pc EXCEPT ![r] = "dial"]
    /\ UNCHANGED <<alive, kind, order, result, err, conn, chan, brokerVars, consVars>>

\* GetAllOrdersHandler
ListOrders(r) ==
    /\ alive
    /\ kind[r] = "list" /\ pc[r] = "locked"
    /\ result' = [result EXCEPT ![r] = Response("ok", orders)]
    /\ mu' = 0
    /\ pc' = [pc EXCEPT ![r] = "done"]
    /\ order' = [order EXCEPT ![r] = Returned(order[r])]
    /\ UNCHANGED <<alive, kind, err, conn, chan, orders, lastOp, brokerVars, consVars>>

\* GetOrderHandler
GetOrder(r) ==
    /\ alive
    /\ kind[r] = "get" /\ pc[r] = "locked"
    /\ LET l == Lookup(orders, order[r].id)
       IN  result' = [result EXCEPT ![r] =
               IF l.ok THEN Response("ok", One(l.order))
               ELSE Response("notFound", EmptyRegistry)]
    /\ mu' = 0
    /\ pc' = [pc EXCEPT ![r] = "done"]
    /\ order' = [order EXCEPT ![r] = Returned(order[r])]
    /\ UNCHANGED <<alive, kind, err, conn, chan, orders, lastOp, brokerVars, consVars>>

\* UpdateOrderHandler; bound tells whether c.Bind accepted the body
UpdateOrder(r, bound) ==
    /\ alive
    /\ kind[r] = "update" /\ pc[r] = "locked"
    /\ LET id == order[r].id
           l == Lookup(orders, id)
       IN  IF ~l.ok
           THEN /\ result' = [result EXCEPT ![r] = Response("notFound", EmptyRegistry)]
                /\ UNCHANGED <<orders, lastOp>>
           ELSE IF ~bound
           THEN /\ result' = [result EXCEPT ![r] = Response("badRequest", EmptyRegistry)]
                /\ UNCHANGED <<orders, lastOp>>
           ELSE /\ orders' = RegistryUpdate(orders, id, order[r].item, order[r].price)
                /\ lastOp' = [lastOp EXCEPT ![id] = [op |-> "update", rec |-> orders'[id]]]
                /\ result' = [result EXCEPT ![r] = Response("ok", One(orders'[id]))]
    /\ mu' = 0
    /\ pc' = [pc EXCEPT ![r] = "done"]
    /\ order' = [order EXCEPT ![r] = Returned(order[r])]
    /\ UNCHANGED <<alive, kind, err, conn, chan, brokerVars, consVars>>

\* a delete that announces the removal on the exchange
DeleteOrder_Publishes(r) ==
    /\ alive
    /\ kind[r] = "delete" /\ pc[r] = "locked"
    /\ result' = [result EXCEPT ![r] = Response("noContent", EmptyRegistry)]
    /\ orders' = RegistryRemove(orders, order[r].id)
    /\ published' = Append(published, Publishing(order[r].id, <<"d">>))
    /\ mu' = 0
    /\ pc' = [pc EXCEPT ![r] = "done"]
    /\ order' = [order EXCEPT ![r] = Returned(order[r])]
    /\ UNCHANGED <<alive, kind, err, conn, chan, lastOp, topoVars, queue, consVars>>

\* DeleteOrderHandler
DeleteOrder(r) ==
    /\ alive
    /\ kind[r] = "delete" /\ pc[r] = "locked"
    /\ LET id == order[r].id
           l == Lookup(orders, id)
       IN  IF ~l.ok
           THEN /\ result' = [result EXCEPT ![r] = Response("notFound", EmptyRegistry)]
                /\ UNCHANGED <<orders, lastOp>>
           ELSE /\ orders' = RegistryRemove(orders, id)
                /\ lastOp' = [lastOp EXCEPT ![id] = [op |-> "delete", rec |-> NoOrder]]
                /\ result' = [result EXCEPT ![r] = Response("noContent", EmptyRegistry)]
    /\ mu' = 0
    /\ pc' = [pc EXCEPT ![r] = "done"]
    /\ order' = [order EXCEPT ![r] = Returned(order[r])]
    /\ UNCHANGED <<alive, kind, err, conn, chan, brokerVars, consVars>>

\* ---------------------------------------------------------------- ConnectRabbitMQ
\* ConnectRabbitMQ returns nil, nil, err and OrderHandler answers 500; the
\* connection and channel are left as the failed call left them
ConnectFailed(r, cause, c, ch) ==
    /\ pc' = [pc EXCEPT ![r] = "done"]
    /\ order' = [order EXCEPT ![r] = Returned(order[r])]
    /\ result' = [result EXCEPT ![r] = Response("connectFailed", EmptyRegistry)]
    /\ err' = [err EXCEPT ![r] = cause]
    /\ conn' = [conn EXCEPT ![r] = c]
    /\ chan' = [chan EXCEPT ![r] = ch]

\* the next call of ConnectRabbitMQ on the same channel
Proceed(r, next) ==
    /\ pc' = [pc EXCEPT ![r] = next]
    /\ UNCHANGED <<order, result, err, conn, chan>>

\* a QueueDeclare of orders with arguments want ("plain" or "dlx") is accepted
\* when the queue is missing or was declared with the same arguments
DeclareAccepted(q, want) == q = "absent" \/ q = want

\* amqp.Dial; io tells whether the broker answers
Dial(r, io) ==
    /\ alive
    /\ kind[r] = "create" /\ pc[r] = "dial"
    /\ IF io
       THEN /\ conn' = [conn EXCEPT ![r] = "open"]
            /\ pc' = [pc EXCEPT ![r] = "channel"]
            /\ UNCHANGED <<order, result, err, chan>>
       ELSE ConnectFailed(r, "io", "none", "none")
    /\ UNCHANGED <<alive, kind, regVars, brokerVars, consVars>>

\* conn.Channel()
OpenChannel(r, io) ==
    /\ alive
    /\ kind[r] = "create" /\ pc[r] = "channel"
    /\ IF io
       THEN /\ chan' = [chan EXCEPT ![r] = "open"]
            /\ pc' = [pc EXCEPT ![r] = "declDLQ"]
            /\ UNCHANGED <<order, result, err, conn>>
       ELSE ConnectFailed(r, "io", "lost", "none")
    /\ UNCHANGED <<alive, kind, regVars, brokerVars, consVars>>

\* ch.QueueDeclare("orders_dlq", durable, no arguments)
DeclareDLQ(r, io) ==
    /\ alive
    /\ kind[r] = "create" /\ pc[r] = "declDLQ"
    /\ IF io /\ chan[r] = "open"
       THEN /\ dlqQ' = TRUE
            /\ Proceed(r, "inspect")
       ELSE /\ ConnectFailed(r, "io", "lost", "closed")
            /\ UNCHANGED dlqQ
    /\ UNCHANGED <<alive, kind, regVars, ordersQ, exchange, binding,
                   published, queue, consVars>>

\* ch.QueueInspect("orders"): any error sends the code to the declare branch;
\* a missing queue is a 404 channel exception, which closes the channel
InspectOrders(r, io) ==
    /\ alive
    /\ kind[r] = "create" /\ pc[r] = "inspect"
    /\ IF io /\ chan[r] = "open"
       THEN IF ordersQ # "absent"
            THEN Proceed(r, "inspectDLQ")
            ELSE /\ pc' = [pc EXCEPT ![r] = "declOrders"]
                 /\ chan' = [chan EXCEPT ![r] = "closed"]
                 /\ UNCHANGED <<order, result, err, conn>>
       ELSE /\ pc' = [pc EXCEPT ![r] = "declOrders"]
            /\ conn' = [conn EXCEPT ![r] = "lost"]
            /\ chan' = [chan EXCEPT ![r] = "closed"]
            /\ UNCHANGED <<order, result, err>>
    /\ UNCHANGED <<alive, kind, regVars, brokerVars, consVars>>

\* ch.QueueDeclare("orders", durable, dead-letter arguments), reached only
\* after QueueInspect returned an error
DeclareOrders(r, io) ==
    /\ alive
    /\ kind[r] = "create" /\ pc[r] = "declOrders"
    /\ IF chan[r] # "open"
       THEN /\ ConnectFailed(r, IF conn[r] = "lost" THEN "io" ELSE "closed",
                             conn[r], chan[r])
            /\ UNCHANGED ordersQ
       ELSE IF ~io
       THEN /\ ConnectFailed(r, "io", "lost", "closed")
            /\ UNCHANGED ordersQ
       ELSE IF DeclareAccepted(ordersQ, "dlx")
       THEN /\ ordersQ' = "dlx"
            /\ Proceed(r, "declExch")
       ELSE /\ ConnectFailed(r, "precondition", conn[r], "closed")
            /\ UNCHANGED ordersQ
    /\ UNCHANGED <<alive, kind, regVars, dlqQ, exchange, binding,
                   published, queue, consVars>>

\* ch.QueueInspect("orders_dlq") when orders exists
InspectDLQ(r, io) ==
    /\ alive
    /\ kind[r] = "create" /\ pc[r] = "inspectDLQ"
    /\ IF io /\ chan[r] = "open"
       THEN IF dlqQ
            THEN Proceed(r, "declExch")
            ELSE ConnectFailed(r, "notFound", conn[r], "closed")
       ELSE ConnectFailed(r, "io", "lost", "closed")
    /\ UNCHANGED <<alive, kind, regVars, brokerVars, consVars>>

\* ch.ExchangeDeclare("order_topic", "topic", durable)
DeclareExchange(r, io) ==
    /\ alive
    /\ kind[r] = "create" /\ pc[r] = "declExch"
    /\ IF io /\ chan[r] = "open"
       THEN /\ exchange' = TRUE
            /\ Proceed(r, "bindQ")
       ELSE /\ ConnectFailed(r, "io", "lost", "closed")
            /\ UNCHANGED exchange
    /\ UNCHANGED <<alive, kind, regVars, dlqQ, ordersQ, binding,
                   published, queue, consVars>>

\* ch.QueueBind("orders", "order.*", "order_topic")
BindQueue(r, io) ==
    /\ alive
    /\ kind[r] = "create" /\ pc[r] = "bindQ"
    /\ IF io /\ chan[r] = "open"
       THEN IF ordersQ # "absent" /\ exchange
            THEN /\ binding' = TRUE
                 /\ Proceed(r, "publish")
            ELSE /\ ConnectFailed(r, "notFound", conn[r], "closed")
                 /\ UNCHANGED binding
       ELSE /\ ConnectFailed(r, "io", "lost", "closed")
            /\ UNCHANGED binding
    /\ UNCHANGED <<alive, kind, regVars, dlqQ, ordersQ, exchange,
                   published, queue, consVars>>

\* PublishMessage(ch, order.ID, order.MessageType), the response, and the
\* deferred ch.Close() and conn.Close()
Publish(r, io) ==
    /\ alive
    /\ kind[r] = "create" /\ pc[r] = "publish"
    /\ Len(published) < MaxMsgs
    /\ LET m == Publishing(order[r].id, order[r].message_type)
       IN  /\ IF Sent(io, chan[r])
              THEN /\ published' = Append(published, m)
                   /\ queue' = Route(queue, binding, m)
              ELSE UNCHANGED <<published, queue>>
           /\ IF io /\ chan[r] = "open"
              THEN /\ result' = [result EXCEPT ![r] = Response("ok", EmptyRegistry)]
                   /\ UNCHANGED err
              ELSE /\ result' = [result EXCEPT ![r] = Response("publishFailed", EmptyRegistry)]
                   /\ err' = [err EXCEPT ![r] = "io"]
    /\ pc' = [pc EXCEPT ![r] = "done"]
    /\ order' = [order EXCEPT ![r] = Returned(order[r])]
    /\ conn' = [conn EXCEPT ![r] = "closed"]
    /\ chan' = [chan EXCEPT ![r] = "closed"]
    /\ UNCHANGED <<alive, kind, regVars, topoVars, consVars>>

\* ---------------------------------------------------------------- StartConsumer
\* an error that ends the consumer's goroutine and leaves the process up
Fatal_ConsumerOnly(cause) ==
    /\ cpc' = "exit"
    /\ cerr' = cause
    /\ UNCHANGED <<alive, reqVars, regVars, cconn, cchan>>

\* log.Fatalf: os.Exit(1) ends the process with every request unit in it; the
\* registry, the mutex and the open connections go with it, the broker's
\* queues and exchange stay
Fatal(cause) ==
    /\ alive' = FALSE
    /\ cpc' = "exit"
    /\ cerr' = cause
    /\ kind' = [r \in Req |-> "idle"]
    /\ order' = [r \in Req |-> NoOrder]
    /\ pc' = [r \in Req |-> "idle"]
    /\ result' = [r \in Req |-> Response("none", EmptyRegistry)]
    /\ err' = [r \in Req |-> "none"]
    /\ conn' = [r \in Req |-> "none"]
    /\ chan' = [r \in Req |-> "none"]
    /\ mu' = 0
    /\ orders' = EmptyRegistry
    /\ lastOp' = [i \in Ids |-> NoOp]
    /\ cconn' = "none"
    /\ cchan' = "none"

\* the consumer goes on: nothing else in the process is touched
Running ==
    UNCHANGED <<alive, reqVars, regVars, cerr>>

\* amqp.Dial
ConsumerDial(io) ==
    /\ alive
    /\ cpc = "dial"
    /\ IF io
       THEN /\ cconn' = "open"
            /\ cpc' = "channel"
            /\ UNCHANGED cchan
            /\ Running
       ELSE Fatal("io")
    /\ UNCHANGED <<brokerVars, msgs, cur, processed>>

\* conn.Channel()
ConsumerChannel(io) ==
    /\ alive
    /\ cpc = "channel"
    /\ IF io
       THEN /\ cchan' = "open"
            /\ cpc' = "declare"
            /\ UNCHANGED cconn
            /\ Running
       ELSE Fatal("io")
    /\ UNCHANGED <<brokerVars, msgs, cur, processed>>

\* ch.QueueDeclare("orders", durable, nil): a queue that exists with
\* dead-letter arguments answers 406 PRECONDITION_FAILED
ConsumerDeclare(io) ==
    /\ alive
    /\ cpc = "declare"
    /\ IF io /\ DeclareAccepted(ordersQ, "plain")
       THEN /\ ordersQ' = "plain"
            /\ cpc' = "consume"
            /\ UNCHANGED <<cconn, cchan>>
            /\ Running
       ELSE /\ Fatal(IF io THEN "precondition" ELSE "io")
            /\ UNCHANGED ordersQ
    /\ UNCHANGED <<dlqQ, exchange, binding, published, queue,
                   msgs, cur, processed>>

\* ch.Consume(q.Name, autoAck = true) and the start of the draining goroutine
ConsumerConsume(io) ==
    /\ alive
    /\ cpc = "consume"
    /\ IF io
       THEN /\ cpc' = "recv"
            /\ UNCHANGED <<cconn, cchan>>
            /\ Running
       ELSE Fatal("io")
    /\ UNCHANGED <<brokerVars, msgs, cur, processed>>

\* a delivery without auto-ack: the message stays at the broker, unsettled
Deliver_Unacked ==
    /\ alive
    /\ cpc \in {"recv", "process"}
    /\ cchan = "open"
    /\ queue # <<>>
    /\ msgs' = Append(msgs, Head(queue))
    /\ UNCHANGED <<alive, reqVars, regVars, brokerVars, cpc, cconn, cchan,
                   cur, processed, cerr>>

\* the broker delivers the head of orders to the registered consumer; with
\* auto-ack the message is settled and gone from the queue on delivery
Deliver ==
    /\ alive
    /\ cpc \in {"recv", "process"}
    /\ cchan = "open"
    /\ queue # <<>>
    /\ msgs' = Append(msgs, Head(queue))
    /\ queue' = Tail(queue)
    /\ UNCHANGED <<alive, reqVars, regVars, topoVars, published, cpc, cconn, cchan,
                   cur, processed, cerr>>

\* a loop that hands each delivery to a unit of its own and goes on
ConsumerReceive_Spawns ==
    /\ alive
    /\ cpc \in {"recv", "process"}
    /\ msgs # <<>>
    /\ cur' = Head(msgs).body
    /\ msgs' = Tail(msgs)
    /\ cpc' = "process"
    /\ UNCHANGED <<alive, reqVars, regVars, brokerVars, cconn, cchan, processed, cerr>>

\* for msg := range msgs
ConsumerReceive ==
    /\ alive
    /\ cpc = "recv"
    /\ msgs # <<>>
    /\ cur' = Head(msgs).body
    /\ msgs' = Tail(msgs)
    /\ cpc' = "process"
    /\ UNCHANGED <<alive, reqVars, regVars, brokerVars, cconn, cchan, processed, cerr>>

\* processOrder(string(msg.Body)), called in the draining loop itself
ProcessOrder ==
    /\ alive
    /\ cpc = "process"
    /\ processed' = Append(processed, cur)
    /\ cur' = NoOrder.id
    /\ cpc' = "recv"
    /\ UNCHANGED <<alive, reqVars, regVars, brokerVars, cconn, cchan, msgs, cerr>>

\* the consumer's connection or channel is lost after startup: the library
\* closes the delivery stream; deliveries it still buffers are dropped or
\* still handed over, as the close races with the buffer
ConsumerLost(drop) ==
    /\ alive
    /\ cpc \in {"recv", "process"}
    /\ cchan = "open"
    /\ cconn' = "lost"
    /\ cchan' = "closed"
    /\ msgs' = IF drop THEN <<>> ELSE msgs
    /\ UNCHANGED <<alive, reqVars, regVars, brokerVars, cpc, cur, processed, cerr>>

\* a loop that dials again when its stream has closed
LoopEnds_Reconnects ==
    /\ alive
    /\ cpc = "recv"
    /\ msgs = <<>>
    /\ cchan = "closed"
    /\ cpc' = "dial"
    /\ cconn' = "none"
    /\ cchan' = "none"
    /\ UNCHANGED <<alive, reqVars, regVars, brokerVars, msgs, cur, processed, cerr>>

\* range over the closed, drained stream ends: the goroutine returns and
\* StartConsumer stays in select {}
LoopEnds ==
    /\ alive
    /\ cpc = "recv"
    /\ msgs = <<>>
    /\ cchan = "closed"
    /\ cpc' = "blocked"
    /\ UNCHANGED <<alive, reqVars, regVars, brokerVars, cconn, cchan, msgs, cur,
                   processed, cerr>>

\* ---------------------------------------------------------------- specification
\* POST /orders with a body out of inputs: OrderHandler with ConnectRabbitMQ
\* and PublishMessage
CreateSteps(inputs) ==
    \/ \E r \in Req, o \in inputs : Arrive(r, "create", o)
    \/ \E r \in Req : CreateBindFail(r)
    \/ \E r \in Req : Lock(r)
    \/ \E r \in Req : CreateStore(r)
    \/ \E r \in Req, io \in BOOLEAN : Dial(r, io)
    \/ \E r \in Req, io \in BOOLEAN : OpenChannel(r, io)
    \/ \E r \in Req, io \in BOOLEAN : DeclareDLQ(r, io)
    \/ \E r \in Req, io \in BOOLEAN : InspectOrders(r, io)
    \/ \E r \in Req, io \in BOOLEAN : DeclareOrders(r, io)
    \/ \E r \in Req, io \in BOOLEAN : InspectDLQ(r, io)
    \/ \E r \in Req, io \in BOOLEAN : DeclareExchange(r, io)
    \/ \E r \in Req, io \in BOOLEAN : BindQueue(r, io)
    \/ \E r \in Req, io \in BOOLEAN : Publish(r, io)

\* go rabbitmq.StartConsumer() and the broker's deliveries to it
ConsumerSteps ==
    \/ \E io \in BOOLEAN : ConsumerDial(io)
    \/ \E io \in BOOLEAN : ConsumerChannel(io)
    \/ \E io \in BOOLEAN : ConsumerDeclare(io)
    \/ \E io \in BOOLEAN : ConsumerConsume(io)
    \/ Deliver
    \/ ConsumerReceive
    \/ ProcessOrder
    \/ LoopEnds

\* the network or the broker drops the consumer's connection
ConsumerFails ==
    \E drop \in BOOLEAN : ConsumerLost(drop)

\* GET /orders
ListSteps ==
    \/ \E r \in Req : Arrive(r, "list", NoOrder)
    \/ \E r \in Req : ListOrders(r)

\* GET /orders/:id
GetSteps ==
    \/ \E r \in Req, o \in IdInputs : Arrive(r, "get", o)
    \/ \E r \in Req : GetOrder(r)

\* PUT /orders/:id
UpdateSteps ==
    \/ \E r \in Req, o \in UpdateInputs : Arrive(r, "update", o)
    \/ \E r \in Req, bound \in BOOLEAN : UpdateOrder(r, bound)

\* DELETE /orders/:id
DeleteSteps ==
    \/ \E r \in Req, o \in IdInputs : Arrive(r, "delete", o)
    \/ \E r \in Req : DeleteOrder(r)

\* the whole service
Next ==
    \/ CreateSteps(OrderInputs)
    \/ ConsumerSteps
    \/ ConsumerFails
    \/ ListSteps
    \/ GetSteps
    \/ UpdateSteps
    \/ DeleteSteps

Spec == Init /\ [][Next]_vars

\* the service receiving create requests only, two bodies per id
NextCreate == CreateSteps(CreateInputs) \/ ConsumerSteps \/ ConsumerFails

SpecCreate == Init /\ [][NextCreate]_vars

\* the same, started on the broker an earlier run left behind
InitBacklog == InitCommon /\ BacklogBroker

SpecBacklog == InitBacklog /\ [][NextCreate]_vars

\* the create-only service with the consumer goroutine and the broker's
\* deliveries scheduled fairly; nothing obliges a connection to fail
SpecLive == Init /\ [][NextCreate]_vars /\ WF_vars(ConsumerSteps)

\* ---------------------------------------------------------------- properties
\* request unit r returns its response in this step
Returns(r) == pc[r] # "done" /\ pc'[r] = "done"

\* request unit r does its registry write in this step
Stores(r) == kind[r] = "create" /\ pc[r] = "locked" /\ pc'[r] = "dial"

\* log contains a message with this body under the routing key order.<mt>
HasMessage(log, body, mt) ==
    \E i \in 1..Len(log) :
        /\ log[i].body = body
        /\ log[i].key = <<"o", "r", "d", "e", "r", ".">> \o mt

\* C1 as stated: whenever a create request reports success, a message with
\* the order's id as body has been published under order.<message_type> and
\* the order is in the registry at that moment, whatever ran concurrently.
C1_SuccessMeansPublishedAndRegistered ==
    [][\A r \in Req :
          (kind[r] = "create" /\ Returns(r) /\ result'[r].status = "ok")
              => /\ HasMessage(published', order[r].id, order[r].message_type)
                 /\ order[r].id \in DOMAIN orders']_vars

\* C1 amended: whenever a create request reports success, the message has
\* been published, and the order is in the registry at that moment unless
\* the last registry operation on its id, after the request's own write, was
\* a Delete.
C1_SuccessMeansPublishedAndRegisteredUnlessDeleted ==
    [][\A r \in Req :
          (kind[r] = "create" /\ Returns(r) /\ result'[r].status = "ok")
              => /\ HasMessage(published', order[r].id, order[r].message_type)
                 /\ \/ order[r].id \in DOMAIN orders'
                    \/ lastOp'[order[r].id].op = "delete"]_vars

\* a create request has reported success for an id a Delete has removed
C1_Witness ==
    \E r \in Req :
        /\ kind[r] = "create" /\ pc[r] = "done" /\ result[r].status = "ok"
        /\ published # <<>>
        /\ order[r].id \notin DOMAIN orders
        /\ lastOp[order[r].id].op = "delete"

\* C2 as stated: whenever the work queue orders exists, it carries the
\* dead-letter arguments pointing at orders_dlq, whichever declarer ran first.
C2_WorkQueueHasDeadLetterArguments ==
    ordersQ # "absent" => ordersQ = "dlx"

\* C3 as stated: a topology setup the transport does not fail under returns
\* no error, and when it has returned, the exchange, the work queue, the
\* dead-letter queue and the binding all exist.
C3_SetupSucceedsFromAnyBrokerState ==
    \A r \in Req :
        kind[r] = "create"
            => /\ err[r] \in {"none", "io"}
               /\ pc[r] = "publish" => (dlqQ /\ ordersQ # "absent" /\ exchange /\ binding)

FailedAtBroker == {"connectFailed", "publishFailed"}

\* C4 as stated: create requests with distinct ids running concurrently all
\* succeed, and a listing taken afterwards maps each id to its submitted
\* record.
C4_ConcurrentCreatesAllSucceedAndAreListed ==
    [][\A r \in Req :
          /\ (kind[r] = "create" /\ Returns(r) /\ result'[r].status # "badRequest")
                 => result'[r].status = "ok"
          /\ (kind[r] = "list" /\ Returns(r))
                 => \A i \in Ids :
                        lastOp[i].op = "create"
                            => /\ i \in DOMAIN result'[r].body
                               /\ result'[r].body[i] = lastOp[i].rec]_vars

\* C4 amended: every create request with a well-formed body has done its
\* registry write when it returns, with success or with a broker failure
\* (its entry is there unless a Delete removed it since), and a listing maps
\* every id whose last registry operation was a create to the record that
\* create submitted.
C4_ConcurrentCreatesAreAllListed ==
    [][\A r \in Req :
          /\ (kind[r] = "create" /\ Returns(r) /\ result'[r].status # "badRequest")
                 => /\ result'[r].status \in {"ok"} \cup FailedAtBroker
                    /\ \/ order[r].id \in DOMAIN orders'
                       \/ lastOp'[order[r].id].op = "delete"
          /\ (kind[r] = "list" /\ Returns(r))
                 => /\ result'[r].status = "ok"
                    /\ \A i \in Ids :
                        lastOp[i].op = "create"
                            => /\ i \in DOMAIN result'[r].body
                               /\ result'[r].body[i] = lastOp[i].rec]_vars

\* a listing shows the orders of two creates with distinct ids while a
\* create request that failed at the broker has returned
C4_Witness ==
    \E r, q \in Req :
        /\ kind[r] = "list" /\ pc[r] = "done"
        /\ DOMAIN result[r].body = Ids
        /\ \A i \in Ids : result[r].body[i] \in OrderInputs
        /\ kind[q] = "create" /\ pc[q] = "done"
        /\ result[q].status \in FailedAtBroker

\* C5: a create request that fails at the broker answers with a failure,
\* leaves the registry as it is (its entry is kept unless a Delete removed
\* it), and publishes nothing; the log of published messages grows only in
\* the step in which a create request returns success; a Get of an id whose
\* entry is in the registry answers with that entry.
C5_BrokerFailureKeepsEntryAndPublishesNothing ==
    [][/\ \A r \in Req :
            /\ (kind[r] = "create" /\ Returns(r) /\ result'[r].status \in FailedAtBroker)
                   => /\ orders' = orders
                      /\ published' = published
                      /\ queue' = queue
                      /\ \/ order[r].id \in DOMAIN orders'
                         \/ lastOp'[order[r].id].op = "delete"
            /\ (kind[r] = "get" /\ Returns(r) /\ lastOp[order[r].id].op # "delete"
                    /\ lastOp[order[r].id].op # "none")
                   => /\ result'[r].status = "ok"
                      /\ result'[r].body = One(orders[order[r].id])
       /\ published' # published
            => \E r \in Req :
                   /\ kind[r] = "create" /\ Returns(r) /\ result'[r].status = "ok"
                   /\ Len(published') = Len(published) + 1]_vars

\* a Get has found the order of a create request that failed at the broker,
\* and nothing was published
C5_Witness ==
    \E r, g \in Req :
        /\ kind[r] = "create" /\ pc[r] = "done" /\ result[r].status \in FailedAtBroker
        /\ kind[g] = "get" /\ pc[g] = "done" /\ result[g].status = "ok"
        /\ order[g].id = order[r].id
        /\ published = <<>>

\* C6: a Get of an id whose last registry operation was a create answers
\* found with the record that create submitted, equal in id, item, price and
\* message_type, whether or not the create's publish went through.
C6_GetReturnsTheCreatedRecord ==
    [][\A g \in Req :
          (kind[g] = "get" /\ Returns(g) /\ lastOp[order[g].id].op = "create")
              => LET o == lastOp[order[g].id].rec
                 IN  /\ result'[g].status = "ok"
                     /\ DOMAIN result'[g].body = {order[g].id}
                     /\ result'[g].body[order[g].id].id = o.id
                     /\ result'[g].body[order[g].id].item = o.item
                     /\ result'[g].body[order[g].id].price = o.price
                     /\ result'[g].body[order[g].id].message_type = o.message_type
                     /\ o.id = order[g].id]_vars

\* a Get has answered with a submitted record whose message was published
C6_Witness ==
    \E g \in Req :
        /\ kind[g] = "get" /\ pc[g] = "done" /\ result[g].status = "ok"
        /\ result[g].body[order[g].id] \in OrderInputs
        /\ lastOp[order[g].id].op = "create"
        /\ Len(published) = 1
        /\ published[1].body = order[g].id

\* the create request has stored its order and is in ConnectRabbitMQ or
\* PublishMessage
AtBroker(r) ==
    /\ kind[r] = "create"
    /\ pc[r] \in {"dial", "channel", "declDLQ", "inspect", "declOrders",
                  "inspectDLQ", "declExch", "bindQ", "publish"}

\* C7: the registry write of a create never ends the request with an error,
\* puts exactly the submitted record under its id, leaves every other entry
\* as it is and does not grow the registry when the id was there; so an id
\* whose last registry operation was a create holds that create's record.
C7_CreateOverwritesLastWriteWins ==
    [][\A r \in Req :
          Stores(r)
              => /\ result'[r].status = "none"
                 /\ DOMAIN orders' = (DOMAIN orders) \cup {order[r].id}
                 /\ orders'[order[r].id] = order[r]
                 /\ \A j \in (DOMAIN orders) \ {order[r].id} : orders'[j] = orders[j]
                 /\ order[r].id \in DOMAIN orders
                        => Cardinality(DOMAIN orders') = Cardinality(DOMAIN orders)
                 /\ \A i \in Ids :
                        lastOp'[i].op = "create"
                            => /\ i \in DOMAIN orders'
                               /\ orders'[i] = lastOp'[i].rec]_vars

\* two create requests have stored different records under one id, and the
\* registry holds that id once, with the record of one of them
C7_Witness ==
    \E r, q \in Req :
        /\ AtBroker(r) /\ AtBroker(q)
        /\ order[r].id = order[q].id
        /\ order[r] # order[q]
        /\ DOMAIN orders = {order[r].id}
        /\ orders[order[r].id] = order[q]

\* C8: once the last registry operation on an id was a successful Delete, a
\* Get of it and a Delete of it answer NotFound; a Delete that answers
\* NotFound leaves the registry as it is, and a successful Delete removes the
\* entry of its id and no other.
C8_DeletedIdIsNotFound ==
    [][\A r \in Req :
          /\ (kind[r] = "get" /\ Returns(r) /\ lastOp[order[r].id].op = "delete")
                 => /\ result'[r].status = "notFound"
                    /\ orders' = orders
          /\ (kind[r] = "delete" /\ Returns(r))
                 => /\ result'[r].status \in {"notFound", "noContent"}
                    /\ lastOp[order[r].id].op = "delete" => result'[r].status = "notFound"
                    /\ result'[r].status = "notFound" => orders' = orders
                    /\ result'[r].status = "noContent"
                           => /\ order[r].id \in DOMAIN orders
                              /\ DOMAIN orders' = (DOMAIN orders) \ {order[r].id}
                              /\ \A j \in DOMAIN orders' : orders'[j] = orders[j]]_vars

\* after a successful Delete of an id, a Get and a second Delete of that id
\* have both answered NotFound
C8_Witness ==
    \E g, d \in Req :
        /\ kind[g] = "get" /\ pc[g] = "done" /\ result[g].status = "notFound"
        /\ kind[d] = "delete" /\ pc[d] = "done" /\ result[d].status = "notFound"
        /\ order[g].id = order[d].id
        /\ lastOp[order[g].id].op = "delete"
        /\ \A i \in Ids \ {order[g].id} : lastOp[i].op = "create"

\* C9: an Update of an id in the registry sets item and price of that entry
\* to the ones bound from the body, and leaves its id, its message_type and
\* every other entry as they were (nothing changes when the body is
\* rejected); an Update of an id not in the registry answers NotFound and
\* leaves the registry as it is.
C9_UpdateChangesOnlyItemAndPrice ==
    [][\A r \in Req :
          (kind[r] = "update" /\ Returns(r))
              => LET id == order[r].id
                 IN  IF id \notin DOMAIN orders
                     THEN /\ result'[r].status = "notFound"
                          /\ orders' = orders
                     ELSE /\ result'[r].status \in {"ok", "badRequest"}
                          /\ DOMAIN orders' = DOMAIN orders
                          /\ \A j \in (DOMAIN orders) \ {id} : orders'[j] = orders[j]
                          /\ orders'[id].id = orders[id].id
                          /\ orders'[id].message_type = orders[id].message_type
                          /\ result'[r].status = "badRequest" => orders' = orders
                          /\ result'[r].status = "ok"
                                 => /\ orders'[id].item = order[r].item
                                    /\ orders'[id].price = order[r].price
                                    /\ result'[r].body = One(orders'[id])]_vars

\* an Update has changed item and price of one entry, which keeps its
\* message type, while the other entry is as it was created
C9_Witness ==
    \E r \in Req :
        /\ kind[r] = "update" /\ pc[r] = "done" /\ result[r].status = "ok"
        /\ DOMAIN orders = Ids
        /\ orders[order[r].id].item = "goat"
        /\ orders[order[r].id].price = 900
        /\ orders[order[r].id].message_type \in {o.message_type : o \in OrderInputs}
        /\ \A j \in Ids \ {order[r].id} : orders[j] \in OrderInputs

\* C10: every message the exchange accepts comes from a create request at
\* its publish step, goes to order_topic with the order's id as body, and
\* has the routing key "order." followed by the request's message type,
\* dots in the message type included.
C10_RoutingKeyIsOrderDotMessageType ==
    [][published' # published
          => \E r \in Req :
                 /\ kind[r] = "create" /\ pc[r] = "publish"
                 /\ published' = Append(published,
                        [exchange |-> "order_topic",
                         key |-> <<"o", "r", "d", "e", "r", ".">> \o order[r].message_type,
                         content_type |-> "text/plain",
                         body |-> order[r].id])]_vars

\* a message with a dotted message type went out under order.a.b
C10_Witness ==
    \E i \in 1..Len(published) :
        /\ published[i].key = <<"o", "r", "d", "e", "r", ".", "a", ".", "b">>
        /\ published[i].exchange = "order_topic"

\* the handlers that work on the registry only
RegistryOnly == {"list", "get", "update", "delete"}

\* C11: no step of a List, Get, Update or Delete request changes the broker
\* (queues, exchange, binding, published messages, queued messages), and
\* such a request has no connection and no channel before or after any of
\* its steps; the log of published messages changes only in the publish
\* step of a create request.
C11_OnlyCreateTouchesTheBroker ==
    [][/\ \A r \in Req :
            (kind[r] \in RegistryOnly /\ kind'[r] = kind[r] /\ pc'[r] # pc[r])
                => /\ brokerVars' = brokerVars
                   /\ conn[r] = "none" /\ conn'[r] = "none"
                   /\ chan[r] = "none" /\ chan'[r] = "none"
       /\ published' # published
            => \E r \in Req : kind[r] = "create" /\ pc[r] = "publish"]_vars

\* a Delete has removed an order and returned, and the one message on the
\* exchange is the one of the create request for that order
C11_Witness ==
    \E d, c \in Req :
        /\ kind[d] = "delete" /\ pc[d] = "done" /\ result[d].status = "noContent"
        /\ conn[d] = "none" /\ chan[d] = "none"
        /\ kind[c] = "create" /\ pc[c] = "done" /\ result[c].status = "ok"
        /\ order[c].id = order[d].id
        /\ Len(published) = 1
        /\ published[1].body = order[d].id

\* the request units inside the critical section of a registry operation
InCritical == {r \in Req : pc[r] = "locked"}

\* C12: at most one request unit is inside a registry critical section,
\* reads included, and it is the holder of the mutex; the registry changes
\* only in the step in which the holder finishes its operation and unlocks,
\* so every operation starts from the registry a complete operation left.
C12_RegistryOperationsAreExclusive ==
    [][/\ Cardinality(InCritical) <= 1
       /\ Cardinality(InCritical') <= 1
       /\ \A r \in Req : (r \in InCritical') <=> (mu' = r)
       /\ (alive' /\ orders' # orders)
            => \E r \in Req : InCritical = {r} /\ mu = r /\ mu' = 0 /\ InCritical' = {}]_vars

\* a read is inside its critical section while another read has arrived and
\* waits for the mutex
C12_Witness ==
    \E r, q \in Req :
        /\ kind[r] = "get" /\ pc[r] = "locked" /\ mu = r
        /\ kind[q] \in {"get", "list"} /\ pc[q] = "start"
        /\ orders # EmptyRegistry

\* the order id is the body of a message the exchange accepted
PublishedFor(i) == \E k \in 1..Len(published) : published[k].body = i

\* the order id was handed to processOrder
DispatchedFor(i) == \E k \in 1..Len(processed) : processed[k] = i

\* the consumer has terminated the process or lost its delivery stream
ConsumerGone == ~alive \/ cchan = "closed"

\* C13 as stated: under fair scheduling, every message a create request
\* published, whatever its message type, is eventually handed to the
\* processing hook, unless the consumer stops running.
C13_EveryPublishedMessageIsDispatched ==
    \A i \in Ids : PublishedFor(i) ~> (DispatchedFor(i) \/ ConsumerGone)

\* C14 as stated: the consumer's declaration of orders succeeds whenever
\* the transport works, whether the queue is missing, was declared by the
\* consumer or was declared with dead-letter arguments by ConnectRabbitMQ;
\* the consumer never ends the process over a declaration conflict.
C14_ConsumerDeclareIsIdempotent ==
    /\ cerr \in {"none", "io"}
    /\ (cpc \in {"consume", "recv", "process", "blocked"}) => ordersQ # "absent"

\* the publisher connections that are open at the broker
OpenConnections == {r \in Req : conn[r] = "open"}

\* C15 as stated: a create request that has completed, on whichever path,
\* has no open connection and no open channel left, so there are never more
\* open publisher connections than create requests in flight.
C15_CompletedCreateHasClosedItsConnection ==
    /\ \A r \in Req :
           (kind[r] = "create" /\ pc[r] = "done")
               => (conn[r] # "open" /\ chan[r] # "open")
    /\ Cardinality(OpenConnections)
           <= Cardinality({r \in Req : kind[r] = "create" /\ InFlight(r)})

\* processOrder is running for a delivery
HookRunning == cpc = "process"

\* C16 as stated: a delivery waiting in the consumer's stream can be handed
\* to the processing hook at once, whether or not the hook is still running
\* for an earlier delivery.
C16_DispatchDoesNotWaitForTheHook ==
    (alive /\ msgs # <<>>) => ENABLED ConsumerReceive

\* C16 amended: the draining loop hands the deliveries to the processing
\* hook itself, one at a time and in delivery order: the hook starts for a
\* delivery only when it is running for no other, it starts for the oldest
\* waiting delivery, and while it runs the later deliveries wait.
C16_HookRunsForOneDeliveryAtATime ==
    [][/\ (cur' # cur /\ cur' # NoOrder.id)
            => /\ ~HookRunning /\ HookRunning'
               /\ cur = NoOrder.id
               /\ msgs # <<>> /\ cur' = Head(msgs).body /\ msgs' = Tail(msgs)
       /\ (HookRunning /\ alive') => (Len(msgs') >= Len(msgs) \/ cchan' = "closed")
       /\ processed' # processed
            => (HookRunning /\ ~HookRunning' /\ processed' = Append(processed, cur))]_vars

\* the hook is running for one delivery while a later one waits in the
\* consumer's stream
C16_Witness ==
    /\ HookRunning
    /\ cchan = "open"
    /\ msgs # <<>>
    /\ cur # Head(msgs).body

\* C17: a message reaches the consumer's stream only in a step that takes
\* it off the queue orders for good (auto-ack), the hook starts only for a
\* message out of that stream, and no step in which the hook starts or
\* returns changes anything at the broker: nothing is rejected, requeued or
\* dead-lettered by the consumer; the queue changes only by a publish or by
\* a delivery.
C17_DeliveredMessagesAreSettledBeforeTheHook ==
    [][/\ Len(msgs') > Len(msgs)
            => /\ queue # <<>>
               /\ msgs' = Append(msgs, Head(queue))
               /\ queue' = Tail(queue)
               /\ cur' = cur /\ processed' = processed
       /\ (cur' # cur \/ processed' # processed)
            => brokerVars' = brokerVars
       /\ queue' # queue
            => \/ published' # published /\ queue' = Append(queue, published'[Len(published')])
               \/ queue' = Tail(queue) /\ Len(msgs') = Len(msgs) + 1]_vars

\* the hook is running for the last delivery, an earlier one has been
\* processed, and nothing is left at the broker
C17_Witness ==
    /\ HookRunning
    /\ cur # NoOrder.id
    /\ processed # <<>>
    /\ queue = <<>>
    /\ msgs = <<>>
    /\ published # <<>>

\* how far a create request has come
Rank(p) ==
    CASE p = "start" -> 0
      [] p = "locked" -> 1
      [] p = "dial" -> 2
      [] p = "channel" -> 3
      [] p = "declDLQ" -> 4
      [] p = "inspect" -> 5
      [] p \in {"declOrders", "inspectDLQ"} -> 6
      [] p = "declExch" -> 7
      [] p = "bindQ" -> 8
      [] p = "publish" -> 9
      [] OTHER -> 10

ConsumerStartup == {"dial", "channel", "declare", "consume"}

\* C18: a create request makes each broker call once and never goes back
\* to an earlier one; when a broker call fails, the request returns with a
\* failure, the process stays up, no other request unit is touched and the
\* unit is free for a later request.  A step of the consumer's startup
\* either goes on to the next call or hands the error to log.Fatalf, which
\* ends the process with every request in it; after that nothing happens.
C18_PublisherErrorsReturnConsumerErrorsTerminate ==
    [][/\ \A r \in Req :
            /\ (kind[r] = "create" /\ InFlight(r) /\ alive' /\ pc'[r] # pc[r])
                   => Rank(pc'[r]) > Rank(pc[r])
            /\ (kind[r] = "create" /\ Returns(r) /\ result'[r].status \in FailedAtBroker)
                   => /\ alive'
                      /\ err'[r] # "none"
                      /\ ~InFlight(r)'
                      /\ \A q \in Req \ {r} : pc'[q] = pc[q] /\ result'[q] = result[q]
                      /\ UNCHANGED consVars
       /\ (cpc \in ConsumerStartup /\ cpc' # cpc)
            => \/ alive' /\ cerr' = "none" /\ cpc' \in (ConsumerStartup \cup {"recv"})
               \/ /\ ~alive' /\ cerr' # "none" /\ cpc' = "exit"
                  /\ \A q \in Req : ~InFlight(q)'
       /\ ~alive => UNCHANGED vars
       /\ alive' # alive => (cpc \in ConsumerStartup /\ ~alive')]_vars

\* the process is serving a create request on the unit on which an earlier
\* create request, whose order is in the registry, failed at the broker
C18_Witness ==
    /\ alive
    /\ AtBroker(1)
    /\ kind[2] = "idle"
    /\ DOMAIN orders = Ids
    /\ published = <<>>

\* the consumer has registered with ch.Consume
Consuming == cpc \in {"recv", "process", "blocked"}

\* C19: from the moment it consumes, the consumer never ends the process
\* and never leaves the consuming part of StartConsumer; once its delivery
\* stream is closed it stays closed, the connection is not dialled again,
\* nothing is taken off the queue any more (a message published from then
\* on stays there and is never dispatched), and once the loop has ended the
\* consumer does nothing at all; the process stays up and takes create
\* requests.
C19_ConsumerNeverTerminatesNorReconnects ==
    [][/\ Consuming
            => /\ Consuming' /\ alive' /\ cerr' = "none"
               /\ cpc' = "blocked" => (cchan = "closed" /\ msgs = <<>>)
       /\ (Consuming /\ cchan = "closed")
            => /\ cchan' = "closed" /\ cconn' = cconn
               /\ Len(queue') >= Len(queue)
               /\ Len(msgs') <= Len(msgs)
               /\ Len(processed') + Len(msgs') <= Len(processed) + Len(msgs) + 1
       /\ cpc = "blocked"
            => /\ UNCHANGED consVars
               /\ (pc[1] \in {"idle", "done"} /\ Len(published) < MaxMsgs)
                      => ENABLED (\E o \in CreateInputs : Arrive(1, "create", o))]_vars

\* the consumer's loop has ended, and a create request has since published
\* a message that sits in the queue, undelivered, while the process is up
C19_Witness ==
    /\ alive
    /\ cpc = "blocked"
    /\ \E r \in Req : kind[r] = "create" /\ pc[r] = "done" /\ result[r].status = "ok"
    /\ Len(queue) = 1
    /\ published = queue
    /\ processed = <<>>

\* the registry operation of unit r, from inside its critical section
Operation(r) ==
    \/ CreateStore(r)
    \/ ListOrders(r)
    \/ GetOrder(r)
    \/ \E bound \in BOOLEAN : UpdateOrder(r, bound)
    \/ DeleteOrder(r)

\* C20: the mutex is held only by a unit inside its registry operation,
\* never by a create request that is connecting, declaring or publishing,
\* nor by a request that has returned or has not locked yet; so, however
\* many create requests are at the broker, a unit waiting for the mutex can
\* take it as soon as it is free, and the unit holding it can finish its
\* operation and release it.
C20_LockIsNotHeldAcrossBrokerCalls ==
    /\ \A r \in Req : (AtBroker(r) \/ pc[r] \in {"idle", "start", "done"}) => mu # r
    /\ mu # 0 => (alive /\ pc[mu] = "locked" /\ ENABLED Operation(mu))
    /\ \A r \in Req : (pc[r] = "start" /\ mu = 0) => ENABLED Lock(r)

\* a create request is at its publish step, its order stored, while a
\* registry-only request holds the mutex
C20_Witness ==
    \E c, q \in Req :
        /\ kind[c] = "create" /\ pc[c] = "publish"
        /\ order[c].id \in DOMAIN orders
        /\ kind[q] \in RegistryOnly /\ pc[q] = "locked" /\ mu = q

====
